---- MODULE Spec2Model ----
(***************************************************************************)
(* Model of src/bp/scripts.rs (LNP/BP Rust library): the typed script      *)
(* wrappers, LockScript::extract_pubkeys / replace_pubkeys, and the        *)
(* conversions Script -> PubkeyScriptType -> PubkeyScript.                 *)
(*                                                                         *)
(* A Script is modelled as its instruction sequence: each instruction is   *)
(* an opcode or a data push, a push carrying a typed payload (a public     *)
(* key with its compressed flag, a 20-byte hash, a 32-byte hash, raw data, *)
(* a small number).  Two scripts are byte-identical iff their instruction  *)
(* sequences are equal (pushes are minimally encoded by the builders).     *)
(***************************************************************************)
EXTENDS Integers, Sequences, FiniteSets, TLC

\* ---------------------------------------------------------------- bounds
NumKeys == 2
NumHashes == 2
MaxKeys == 2

\* ------------------------------------------------------------ data model
SecpKeys == 1..NumKeys
Hashes == 1..NumHashes
None == 0

NoVal == [kind |-> "none", n |-> 0, c |-> FALSE]
KeyVal(pk) == [kind |-> "key", n |-> pk.key, c |-> pk.compressed]
Hash20Val(h) == [kind |-> "h20", n |-> h, c |-> FALSE]
Hash32Val(h) == [kind |-> "h32", n |-> h, c |-> FALSE]
DataVal(d) == [kind |-> "data", n |-> d, c |-> FALSE]
NumVal(k) == [kind |-> "num", n |-> k, c |-> FALSE]

PublicKey(compressed, key) == [compressed |-> compressed, key |-> key]
PubKeys == {PublicKey(c, k) : c \in BOOLEAN, k \in SecpKeys}
NoKey == PublicKey(FALSE, 0)

Op(name) == [op |-> name, val |-> NoVal]
Push(v) == [op |-> "PUSH", val |-> v]
PushNum(k) == [op |-> "OP_PUSHNUM", val |-> NumVal(k)]

\* ------------------------------------------------- wrapper!(...) newtypes
from_inner(wrapper, script) == [wrapper |-> wrapper, inner |-> script]
into_inner(w) == w.inner
NoScript == from_inner("none", <<>>)

\* ------------------------------------ policy-expression tree (miniscript)
NoTree == [node |-> "none", k |-> 0, keys |-> <<>>, hash |-> 0, sub |-> <<>>]
PkK(pk) == [node |-> "pk_k", k |-> 0, keys |-> <<pk>>, hash |-> 0, sub |-> <<>>]
PkH(h) == [node |-> "pk_h", k |-> 0, keys |-> <<>>, hash |-> h, sub |-> <<>>]
Multi(k, ks) == [node |-> "multi", k |-> k, keys |-> ks, hash |-> 0, sub |-> <<>>]
AndB(l, r) == [node |-> "and_b", k |-> 0, keys |-> <<>>, hash |-> 0, sub |-> <<l, r>>]

RECURSIVE KeyPushes(_)
KeyPushes(ks) ==
    IF ks = <<>> THEN <<>>
    ELSE <<Push(KeyVal(Head(ks)))>> \o KeyPushes(Tail(ks))

\* Miniscript::encode: c:pk_k, c:pk_h, multi, and_b(X, a:Y)
RECURSIVE Encode(_)
Encode(t) ==
    CASE t.node = "pk_k" -> <<Push(KeyVal(t.keys[1])), Op("OP_CHECKSIG")>>
      [] t.node = "pk_h" -> <<Op("OP_DUP"), Op("OP_HASH160"), Push(Hash20Val(t.hash)),
                              Op("OP_EQUALVERIFY"), Op("OP_CHECKSIG")>>
      [] t.node = "multi" -> <<PushNum(t.k)>> \o KeyPushes(t.keys)
                              \o <<PushNum(Len(t.keys)), Op("OP_CHECKMULTISIG")>>
      [] t.node = "and_b" -> Encode(t.sub[1]) \o <<Op("OP_TOALTSTACK")>>
                              \o Encode(t.sub[2])
                              \o <<Op("OP_FROMALTSTACK"), Op("OP_BOOLAND")>>
      [] OTHER -> <<>>

ParseOk(t) == [ok |-> TRUE, tree |-> t, err |-> ""]
ParseErr(e) == [ok |-> FALSE, tree |-> NoTree, err |-> e]

IsKeyPush(tok) == tok.op = "PUSH" /\ tok.val.kind = "key"
KeyOf(tok) == PublicKey(tok.val.c, tok.val.n)

\* terminal fragments, read from the instruction sequence
ParseLeaf(toks) ==
    LET n == Len(toks) IN
    IF n = 0 THEN ParseErr("UnexpectedStart")
    ELSE IF toks[n].op = "OP_CHECKMULTISIG" THEN
        IF n < 4 \/ toks[1].op # "OP_PUSHNUM" \/ toks[n-1].op # "OP_PUSHNUM"
           \/ \E i \in 2..(n-2) : ~IsKeyPush(toks[i])
        THEN ParseErr("Unexpected")
        ELSE IF toks[n-1].val.n # n - 3 THEN ParseErr("Unexpected")
        ELSE IF toks[1].val.n < 1 \/ toks[1].val.n > n - 3
             THEN ParseErr("CmsTooManyKeys")
        ELSE ParseOk(Multi(toks[1].val.n, [i \in 1..(n-3) |-> KeyOf(toks[i+1])]))
    ELSE IF n = 2 /\ IsKeyPush(toks[1]) /\ toks[2].op = "OP_CHECKSIG"
        THEN ParseOk(PkK(KeyOf(toks[1])))
    ELSE IF n = 5 /\ toks[1].op = "OP_DUP" /\ toks[2].op = "OP_HASH160"
            /\ toks[3].op = "PUSH" /\ toks[3].val.kind = "h20"
            /\ toks[4].op = "OP_EQUALVERIFY" /\ toks[5].op = "OP_CHECKSIG"
        THEN ParseOk(PkH(toks[3].val.n))
    ELSE ParseErr("Unexpected")

\* index of the OP_TOALTSTACK matching the OP_FROMALTSTACK that closes at i+1
RECURSIVE MatchAlt(_, _, _)
MatchAlt(toks, i, depth) ==
    IF i = 0 THEN 0
    ELSE IF toks[i].op = "OP_FROMALTSTACK" THEN MatchAlt(toks, i - 1, depth + 1)
    ELSE IF toks[i].op = "OP_TOALTSTACK"
        THEN IF depth = 0 THEN i ELSE MatchAlt(toks, i - 1, depth - 1)
    ELSE MatchAlt(toks, i - 1, depth)

\* Miniscript::parse
RECURSIVE Parse(_)
Parse(toks) ==
    LET n == Len(toks) IN
    IF n >= 2 /\ toks[n].op = "OP_BOOLAND" THEN
        IF toks[n-1].op # "OP_FROMALTSTACK" THEN ParseErr("Unexpected")
        ELSE LET i == MatchAlt(toks, n - 2, 0) IN
             IF i = 0 THEN ParseErr("Unexpected")
             ELSE LET l == Parse(SubSeq(toks, 1, i - 1))
                      r == Parse(SubSeq(toks, i + 1, n - 2))
                  IN IF ~l.ok THEN l
                     ELSE IF ~r.ok THEN r
                     ELSE ParseOk(AndB(l.tree, r.tree))
    ELSE ParseLeaf(toks)

\* PubkeyOrHash items
PlainPubkey(pk) == [plain |-> TRUE, key |-> pk, hash |-> 0]
HashedPubkey(h) == [plain |-> FALSE, key |-> NoKey, hash |-> h]

\* Miniscript::iter_pubkeys_and_hashes: the key-bearing leaves, depth first
RECURSIVE iter_pubkeys_and_hashes(_)
iter_pubkeys_and_hashes(t) ==
    CASE t.node = "pk_k" -> <<PlainPubkey(t.keys[1])>>
      [] t.node = "pk_h" -> <<HashedPubkey(t.hash)>>
      [] t.node = "multi" -> [i \in 1..Len(t.keys) |-> PlainPubkey(t.keys[i])]
      [] t.node = "and_b" -> iter_pubkeys_and_hashes(t.sub[1])
                              \o iter_pubkeys_and_hashes(t.sub[2])
      [] OTHER -> <<>>

\* replacement of one leaf item by the closure's answer (None: leave it)
Some(item) == [some |-> TRUE, item |-> item]
NoItem == [some |-> FALSE, item |-> HashedPubkey(0)]

\* faulty variant: the closure builds the replacement from the leaf's own key
ReplaceClosure_own_key(processor, item) ==
    IF item.plain
    THEN IF processor[item.key.key] = None THEN NoItem
         ELSE Some(PlainPubkey(PublicKey(TRUE, item.key.key)))
    ELSE NoItem

\* faulty variant: the closure re-wraps a key the processor left alone
ReplaceClosure_rewrap(processor, item) ==
    IF item.plain
    THEN IF processor[item.key.key] = None
         THEN Some(PlainPubkey(PublicKey(TRUE, item.key.key)))
         ELSE Some(PlainPubkey(PublicKey(TRUE, processor[item.key.key])))
    ELSE NoItem

\* the closure replace_pubkeys hands to replace_pubkeys_and_hashes
ReplaceClosure(processor, item) ==
    IF item.plain
    THEN IF processor[item.key.key] = None THEN NoItem
         ELSE Some(PlainPubkey(PublicKey(TRUE, processor[item.key.key])))
    ELSE NoItem

ReplaceKey(processor, pk) ==
    LET r == ReplaceClosure(processor, PlainPubkey(pk)) IN
    IF r.some /\ r.item.plain THEN r.item.key ELSE pk

ReplaceHash(processor, h) ==
    LET r == ReplaceClosure(processor, HashedPubkey(h)) IN
    IF r.some /\ ~r.item.plain THEN r.item.hash ELSE h

\* Miniscript::replace_pubkeys_and_hashes: the same tree, each key-bearing leaf
\* replaced where the closure answers Some
RECURSIVE replace_pubkeys_and_hashes(_, _)
replace_pubkeys_and_hashes(t, processor) ==
    CASE t.node = "pk_k" -> PkK(ReplaceKey(processor, t.keys[1]))
      [] t.node = "pk_h" -> PkH(ReplaceHash(processor, t.hash))
      [] t.node = "multi" ->
            Multi(t.k, [i \in 1..Len(t.keys) |-> ReplaceKey(processor, t.keys[i])])
      [] t.node = "and_b" -> AndB(replace_pubkeys_and_hashes(t.sub[1], processor),
                                  replace_pubkeys_and_hashes(t.sub[2], processor))
      [] OTHER -> t

\* -------------------------------------------------- LockScriptParseError
NoError == [variant |-> "none", hash |-> 0, miniscript |-> ""]
PubkeyHashError(h) == [variant |-> "PubkeyHash", hash |-> h, miniscript |-> ""]
MiniscriptError(e) == [variant |-> "Miniscript", hash |-> 0, miniscript |-> e]

\* faulty variant: the conversion drops the parser's error
LockScriptParseError_from_generic(miniscript_error) == MiniscriptError("Unexpected")

LockScriptParseError_from(miniscript_error) == MiniscriptError(miniscript_error)

\* ------------------------------------------------------------ LockScript
KeysOk(keys) == [ok |-> TRUE, keys |-> keys, err |-> NoError]
KeysErr(e) == [ok |-> FALSE, keys |-> <<>>, err |-> e]

\* faulty variant: a key already collected is not pushed again
RECURSIVE try_fold_dedup(_, _, _)
try_fold_dedup(items, i, keys) ==
    IF i > Len(items) THEN KeysOk(keys)
    ELSE IF ~items[i].plain THEN KeysErr(PubkeyHashError(items[i].hash))
    ELSE IF \E j \in 1..Len(keys) : keys[j] = items[i].key.key
        THEN try_fold_dedup(items, i + 1, keys)
    ELSE try_fold_dedup(items, i + 1, Append(keys, items[i].key.key))

\* faulty variant: a hashed leaf is passed over
RECURSIVE try_fold_skip_hashed(_, _, _)
try_fold_skip_hashed(items, i, keys) ==
    IF i > Len(items) THEN KeysOk(keys)
    ELSE IF ~items[i].plain THEN try_fold_skip_hashed(items, i + 1, keys)
    ELSE try_fold_skip_hashed(items, i + 1, Append(keys, items[i].key.key))

\* the try_fold of extract_pubkeys over the items from position i on
RECURSIVE try_fold(_, _, _)
try_fold(items, i, keys) ==
    IF i > Len(items) THEN KeysOk(keys)
    ELSE IF ~items[i].plain THEN KeysErr(PubkeyHashError(items[i].hash))
    ELSE try_fold(items, i + 1, Append(keys, items[i].key.key))

extract_pubkeys(self) ==
    LET parsed == Parse(into_inner(self)) IN
    IF ~parsed.ok THEN KeysErr(LockScriptParseError_from(parsed.err))
    ELSE try_fold(iter_pubkeys_and_hashes(parsed.tree), 1, <<>>)

ScriptOk(script) == [ok |-> TRUE, script |-> script, err |-> NoError]
ScriptErr(e) == [ok |-> FALSE, script |-> NoScript, err |-> e]

replace_pubkeys(self, processor) ==
    LET parsed == Parse(into_inner(self)) IN
    IF ~parsed.ok THEN ScriptErr(LockScriptParseError_from(parsed.err))
    ELSE ScriptOk(from_inner("LockScript",
                  Encode(replace_pubkeys_and_hashes(parsed.tree, processor))))

\* the keys replace_pubkeys passes to processor, in the order of the calls
RECURSIVE PlainKeys(_)
PlainKeys(items) ==
    IF items = <<>> THEN <<>>
    ELSE (IF Head(items).plain THEN <<Head(items).key.key>> ELSE <<>>)
         \o PlainKeys(Tail(items))

processor_calls(self) ==
    LET parsed == Parse(into_inner(self)) IN
    IF ~parsed.ok THEN <<>>
    ELSE PlainKeys(iter_pubkeys_and_hashes(parsed.tree))

\* ------------------------------------------- Builder templates (bitcoin)
gen_p2pk(pubkey) == <<Push(KeyVal(pubkey)), Op("OP_CHECKSIG")>>
gen_p2pkh(pubkey_hash) ==
    <<Op("OP_DUP"), Op("OP_HASH160"), Push(Hash20Val(pubkey_hash)),
      Op("OP_EQUALVERIFY"), Op("OP_CHECKSIG")>>
gen_p2sh(script_hash) ==
    <<Op("OP_HASH160"), Push(Hash20Val(script_hash)), Op("OP_EQUAL")>>
gen_op_return(data) == <<Op("OP_RETURN"), Push(DataVal(data))>>
gen_v0_p2wpkh(wpubkey_hash) == <<PushNum(0), Push(Hash20Val(wpubkey_hash))>>
gen_v0_p2wsh(wscript_hash) == <<PushNum(0), Push(Hash32Val(wscript_hash))>>

\* ------------------------------------------------------ PubkeyScriptType
SecpVal(k) == [kind |-> "secp", n |-> k, c |-> TRUE]
P2S(script) == [tag |-> "P2S", script |-> script, val |-> NoVal]
P2PK(pubkey) == [tag |-> "P2PK", script |-> NoScript, val |-> KeyVal(pubkey)]
P2PKH(h) == [tag |-> "P2PKH", script |-> NoScript, val |-> Hash20Val(h)]
P2SH(h) == [tag |-> "P2SH", script |-> NoScript, val |-> Hash20Val(h)]
P2OR(data) == [tag |-> "P2OR", script |-> NoScript, val |-> DataVal(data)]
P2WPKH(h) == [tag |-> "P2WPKH", script |-> NoScript, val |-> Hash20Val(h)]
P2WSH(h) == [tag |-> "P2WSH", script |-> NoScript, val |-> Hash32Val(h)]
P2TR(k) == [tag |-> "P2TR", script |-> NoScript, val |-> SecpVal(k)]

\* faulty variant: a script opening with OP_RETURN is taken for null data
PubkeyScriptType_from_null_data(script_pubkey) ==
    IF script_pubkey # <<>> /\ script_pubkey[1].op = "OP_RETURN"
    THEN P2OR(0)
    ELSE P2S(from_inner("PubkeyScript", script_pubkey))

\* impl From<Script> for PubkeyScriptType
PubkeyScriptType_from(script_pubkey) == P2S(from_inner("PubkeyScript", script_pubkey))

\* impl From<PubkeyScriptType> for PubkeyScript; unimplemented!() panics
Returned(script) == [status |-> "returned", script |-> script]
Panicked == [status |-> "panicked", script |-> NoScript]
NotRun == [status |-> "none", script |-> NoScript]

PubkeyScript_from(spkt) ==
    CASE spkt.tag = "P2S" -> Returned(from_inner("PubkeyScript", into_inner(spkt.script)))
      [] spkt.tag = "P2PK" ->
            Returned(from_inner("PubkeyScript", gen_p2pk(KeyOf(Push(spkt.val)))))
      [] spkt.tag = "P2PKH" -> Returned(from_inner("PubkeyScript", gen_p2pkh(spkt.val.n)))
      [] spkt.tag = "P2SH" -> Returned(from_inner("PubkeyScript", gen_p2sh(spkt.val.n)))
      [] spkt.tag = "P2OR" -> Returned(from_inner("PubkeyScript", gen_op_return(spkt.val.n)))
      [] spkt.tag = "P2WPKH" ->
            Returned(from_inner("PubkeyScript", gen_v0_p2wpkh(spkt.val.n)))
      [] spkt.tag = "P2WSH" ->
            Returned(from_inner("PubkeyScript", gen_v0_p2wsh(spkt.val.n)))
      [] spkt.tag = "P2TR" -> Panicked

\* ---------------------------------------------------- PubkeyScriptSource
\* the enum's variant constructors: a value is built from its content alone
NoSource == [tag |-> "none", script |-> NoScript, key |-> NoKey]
SourceOfScript(tag, script) == [tag |-> tag, script |-> script, key |-> NoKey]
SourceOfKey(tag, key) == [tag |-> tag, script |-> NoScript, key |-> key]

\* hash collaborators: HASH160 of a serialized key, HASH160 / SHA256 of a script
PubkeyHashOf(pk) == ((pk.key + (IF pk.compressed THEN 0 ELSE 1)) % NumHashes) + 1
ScriptHashOf(script) == (Len(script) % NumHashes) + 1
WScriptHashOf(script) == ((Len(script) + 1) % NumHashes) + 1

\* ---------------------------------------------------------------- inputs
LeafTrees(n) ==
    (IF n = 1 THEN {PkK(pk) : pk \in PubKeys} \cup {PkH(h) : h \in Hashes} ELSE {})
    \cup {Multi(k, ks) : k \in 1..n, ks \in [1..n -> PubKeys]}

\* single fragments: one key, one key hash, or a k-of-n multisig, n <= MaxKeys
Leaves == UNION {LeafTrees(n) : n \in 1..MaxKeys}

\* and_b of two one-key fragments
Pairs == {AndB(l, r) : l, r \in LeafTrees(1)}

\* and_b nested to the left and to the right
CoreLeaves == {PkK(PublicKey(TRUE, k)) : k \in SecpKeys} \cup {PkH(1)}
Nested ==
    {AndB(AndB(a, b), c) : a, b, c \in CoreLeaves}
    \cup {AndB(a, AndB(b, c)) : a, b, c \in CoreLeaves}

Trees == Leaves \cup Pairs \cup Nested

Truncated(script) == SubSeq(script, 1, Len(script) - 1)

\* instruction sequences with no valid policy structure
Malformed ==
    {<<>>, <<Op("OP_RETURN")>>, <<Op("OP_FROMALTSTACK"), Op("OP_BOOLAND")>>}
    \cup {Truncated(Encode(t)) : t \in LeafTrees(1) \cup Pairs \cup Nested}
    \cup {Encode(t) \o <<Op("OP_BOOLAND")>> : t \in LeafTrees(1) \cup Nested}
    \cup {Encode(Multi(Len(ks) + 1, ks)) : ks \in [1..1 -> PubKeys]}
    \cup {gen_p2sh(h) : h \in Hashes}

LockInputs == {Encode(t) : t \in Trees} \cup Malformed

Processors == [SecpKeys -> SecpKeys \cup {None}]
NoProcessor == [k \in SecpKeys |-> None]

NoType == [tag |-> "none", script |-> NoScript, val |-> NoVal]

TypeInputs ==
    {P2S(from_inner("PubkeyScript", s)) : s \in {Encode(t) : t \in LeafTrees(1)} \cup {<<>>}}
    \cup {P2PK(pk) : pk \in PubKeys}
    \cup {P2PKH(h) : h \in Hashes} \cup {P2SH(h) : h \in Hashes}
    \cup {P2OR(d) : d \in Hashes}
    \cup {P2WPKH(h) : h \in Hashes} \cup {P2WSH(h) : h \in Hashes}
    \cup {P2TR(k) : k \in SecpKeys}

\* scripts a transaction output may carry: every canonical template, a witness
\* version 1 program, and scripts that follow no template
ScriptInputs ==
    {gen_p2pk(pk) : pk \in PubKeys}
    \cup {gen_p2pkh(h) : h \in Hashes} \cup {gen_p2sh(h) : h \in Hashes}
    \cup {gen_op_return(d) : d \in Hashes}
    \cup {gen_v0_p2wpkh(h) : h \in Hashes} \cup {gen_v0_p2wsh(h) : h \in Hashes}
    \cup {<<PushNum(1), Push(SecpVal(k))>> : k \in SecpKeys}
    \cup {<<>>, <<Op("OP_RETURN")>>, <<Op("OP_DUP")>>}
    \cup {Encode(t) : t \in LeafTrees(MaxKeys) \cup Nested}

\* commitments whose pre-image PubkeyScriptSource carries as a key or a script
HashTypes ==
    {P2PKH(h) : h \in Hashes} \cup {P2SH(h) : h \in Hashes}
    \cup {P2WSH(h) : h \in Hashes}

Candidates == {from_inner("LockScript", Encode(t)) : t \in LeafTrees(1)}

\* ---------------------------------------------------------- state machine
VARIABLES pc, lockScript, processor, keysResult, scriptResult, calls,
          script_pubkey, spkt, generated, reclass, source

vars == <<pc, lockScript, processor, keysResult, scriptResult, calls,
          script_pubkey, spkt, generated, reclass, source>>

Init ==
    /\ processor = NoProcessor
    /\ keysResult = KeysErr(NoError)
    /\ scriptResult = ScriptErr(NoError)
    /\ calls = <<>>
    /\ generated = NotRun
    /\ reclass = NoType
    /\ source = NoSource
    /\ \/ /\ pc = "lock"
          /\ lockScript \in {from_inner("LockScript", s) : s \in LockInputs}
          /\ script_pubkey = <<>>
          /\ spkt = NoType
       \/ /\ pc = "classify"
          /\ lockScript = NoScript
          /\ script_pubkey \in ScriptInputs
          /\ spkt = NoType
       \/ /\ pc = "generate"
          /\ lockScript = NoScript
          /\ script_pubkey = <<>>
          /\ spkt \in TypeInputs
       \/ /\ pc = "resolve"
          /\ lockScript = NoScript
          /\ script_pubkey = <<>>
          /\ spkt \in HashTypes

\* LockScript::extract_pubkeys(&self)
ExtractPubkeys ==
    /\ pc = "lock"
    /\ keysResult' = extract_pubkeys(lockScript)
    /\ pc' = "extracted"
    /\ UNCHANGED <<lockScript, processor, scriptResult, calls, script_pubkey, spkt,
                   generated, reclass, source>>

\* LockScript::replace_pubkeys(&self, processor)
ReplacePubkeys ==
    /\ pc = "lock"
    /\ \E f \in Processors :
          /\ processor' = f
          /\ scriptResult' = replace_pubkeys(lockScript, f)
    /\ calls' = processor_calls(lockScript)
    /\ pc' = "replaced"
    /\ UNCHANGED <<lockScript, keysResult, script_pubkey, spkt, generated, reclass,
                   source>>

\* PubkeyScriptType::from(script_pubkey)
Classify ==
    /\ pc = "classify"
    /\ spkt' = PubkeyScriptType_from(script_pubkey)
    /\ pc' = "classified"
    /\ UNCHANGED <<lockScript, processor, keysResult, scriptResult, calls,
                   script_pubkey, generated, reclass, source>>

\* PubkeyScript::from(spkt), of a given value or of a classification's result
Generate ==
    /\ pc \in {"generate", "classified"}
    /\ generated' = PubkeyScript_from(spkt)
    /\ pc' = IF PubkeyScript_from(spkt).status = "panicked" THEN "aborted"
             ELSE IF pc = "generate" THEN "generated" ELSE "regenerated"
    /\ UNCHANGED <<lockScript, processor, keysResult, scriptResult, calls,
                   script_pubkey, spkt, reclass, source>>

\* PubkeyScriptType::from(generated script)
Reclassify ==
    /\ pc = "generated"
    /\ reclass' = PubkeyScriptType_from(into_inner(generated.script))
    /\ pc' = "reclassified"
    /\ UNCHANGED <<lockScript, processor, keysResult, scriptResult, calls,
                   script_pubkey, spkt, generated, source>>

\* a PubkeyScriptSource built for the commitment spkt from a candidate pre-image
ConstructSource ==
    /\ pc = "resolve"
    /\ \/ /\ spkt.tag = "P2PKH"
          /\ \E pk \in PubKeys : source' = SourceOfKey("P2PKH", pk)
       \/ /\ spkt.tag \in {"P2SH", "P2WSH"}
          /\ \E s \in Candidates : source' = SourceOfScript(spkt.tag, s)
    /\ pc' = "resolved"
    /\ UNCHANGED <<lockScript, processor, keysResult, scriptResult, calls,
                   script_pubkey, spkt, generated, reclass>>

Next ==
    \/ ExtractPubkeys
    \/ ReplacePubkeys
    \/ Classify
    \/ Generate
    \/ Reclassify
    \/ ConstructSource

Spec == Init /\ [][Next]_vars

\* ------------------------------------------------------------ properties
ParsedLock == Parse(into_inner(lockScript))
LockItems == iter_pubkeys_and_hashes(ParsedLock.tree)
AllPlain(items) == \A i \in 1..Len(items) : items[i].plain
FirstHashed(items) ==
    CHOOSE i \in 1..Len(items) :
        ~items[i].plain /\ \A j \in 1..(i - 1) : items[j].plain

\* the key a leaf holding k holds after the mapping f is applied to it
Mapped(f, k) == IF f[k] = None THEN k ELSE f[k]

\* u is t with f applied leaf by leaf: same shape, hashed leaves and keys with
\* no replacement untouched, every other plain key replaced by f's answer
RECURSIVE LeafExact(_, _, _)
LeafExact(t, u, f) ==
    /\ u.node = t.node
    /\ u.k = t.k
    /\ u.hash = t.hash
    /\ Len(u.keys) = Len(t.keys)
    /\ \A i \in 1..Len(t.keys) :
          IF f[t.keys[i].key] = None THEN u.keys[i] = t.keys[i]
          ELSE u.keys[i].key = f[t.keys[i].key]
    /\ Len(u.sub) = Len(t.sub)
    /\ \A i \in 1..Len(t.sub) : LeafExact(t.sub[i], u.sub[i], f)

\* C5: for a LockScript whose policy tree has only plain-key leaves,
\* extract_pubkeys succeeds and returns exactly those keys in depth-first order,
\* one entry per leaf and no deduplication; a k-of-n multisig over [k1..kn]
\* yields [k1..kn].
C5_ExtractionExact ==
    (pc = "extracted" /\ ParsedLock.ok /\ AllPlain(LockItems)) =>
        /\ keysResult.ok
        /\ keysResult.err = NoError
        /\ Len(keysResult.keys) = Len(LockItems)
        /\ \A i \in 1..Len(LockItems) : keysResult.keys[i] = LockItems[i].key.key
        /\ \A n \in 1..MaxKeys : \A t \in LeafTrees(n) :
              (t.node = "multi" /\ into_inner(lockScript) = Encode(t)) =>
                  keysResult.keys = [i \in 1..n |-> t.keys[i].key]

C5_Witness ==
    /\ pc = "extracted"
    /\ into_inner(lockScript) = Encode(AndB(AndB(PkK(PublicKey(TRUE, 2)),
                                                PkK(PublicKey(TRUE, 1))),
                                           PkK(PublicKey(TRUE, 2))))
    /\ keysResult.ok
    /\ keysResult.keys = <<2, 1, 2>>

\* C6: for a parseable LockScript with at least one hashed-key leaf,
\* extract_pubkeys fails with PubkeyHash carrying the hash of the first hashed
\* leaf in traversal order, whatever plain keys precede or follow it, and
\* returns no partial key sequence.
C6_ExtractionFailsOnHash ==
    (pc = "extracted" /\ ParsedLock.ok /\ ~AllPlain(LockItems)) =>
        /\ ~keysResult.ok
        /\ keysResult.keys = <<>>
        /\ keysResult.err = PubkeyHashError(LockItems[FirstHashed(LockItems)].hash)

C6_Witness ==
    /\ pc = "extracted"
    /\ into_inner(lockScript) = Encode(AndB(PkK(PublicKey(TRUE, 1)),
                                           AndB(PkH(1), PkK(PublicKey(TRUE, 2)))))
    /\ ~keysResult.ok
    /\ keysResult.err = PubkeyHashError(1)

\* C7: for a parseable LockScript s and any mapping f, replace_pubkeys(s, f)
\* succeeds with a script whose policy tree has the shape of s's, each plain
\* leaf k holding f(k) where f gives a replacement and k otherwise, hashed
\* leaves unchanged; for plain-only scripts extracting the result gives the
\* input's keys with f applied element-wise.
C7_SubstitutionLeafExact ==
    (pc = "replaced" /\ ParsedLock.ok) =>
        /\ scriptResult.ok
        /\ scriptResult.err = NoError
        /\ scriptResult.script.wrapper = "LockScript"
        /\ Parse(into_inner(scriptResult.script)).ok
        /\ LeafExact(ParsedLock.tree, Parse(into_inner(scriptResult.script)).tree,
                     processor)
        /\ AllPlain(LockItems) =>
              /\ extract_pubkeys(scriptResult.script).ok
              /\ extract_pubkeys(scriptResult.script).keys =
                    [i \in 1..Len(LockItems) |-> Mapped(processor, LockItems[i].key.key)]

C7_Witness ==
    /\ pc = "replaced"
    /\ into_inner(lockScript) =
          Encode(Multi(2, <<PublicKey(FALSE, 1), PublicKey(TRUE, 2)>>))
    /\ processor = [k \in SecpKeys |-> IF k = 1 THEN 2 ELSE None]
    /\ scriptResult.ok
    /\ extract_pubkeys(scriptResult.script).keys = <<2, 2>>

\* C8: for a parseable LockScript, replace_pubkeys with a mapping that answers
\* None for every key returns a LockScript with the input's bytes, and the
\* input itself is never modified.
C8_SubstitutionIdentity ==
    /\ []((pc = "replaced" /\ ParsedLock.ok /\ processor = NoProcessor) =>
            /\ scriptResult.ok
            /\ into_inner(scriptResult.script) = into_inner(lockScript))
    /\ [][lockScript' = lockScript]_vars

C8_Witness ==
    /\ pc = "replaced"
    /\ processor = NoProcessor
    /\ into_inner(lockScript) = Encode(AndB(PkK(PublicKey(FALSE, 1)), PkH(2)))
    /\ scriptResult = ScriptOk(lockScript)

\* C9: for a LockScript that does not parse as a policy expression, both
\* extract_pubkeys and replace_pubkeys return the Miniscript error carrying the
\* parser's error unchanged, with no partial result, and replace_pubkeys calls
\* the mapping on no key.
C9_ParseFailurePropagates ==
    /\ (pc = "extracted" /\ ~ParsedLock.ok) =>
          keysResult = KeysErr(MiniscriptError(ParsedLock.err))
    /\ (pc = "replaced" /\ ~ParsedLock.ok) =>
          /\ scriptResult = ScriptErr(MiniscriptError(ParsedLock.err))
          /\ calls = <<>>

C9_Witness ==
    /\ pc = "replaced"
    /\ processor = [k \in SecpKeys |-> 1]
    /\ into_inner(lockScript) = Encode(Multi(2, <<PublicKey(TRUE, 1)>>))
    /\ scriptResult.err = MiniscriptError("CmsTooManyKeys")

\* the witness version 1 program of a taproot output key
TaprootTemplate(k) == <<PushNum(1), Push(SecpVal(k))>>

\* the variant the canonical templates prescribe for a script, tried in the
\* order pay-to-pubkey, -pubkey-hash, -script-hash, -witness-pubkey-hash,
\* -witness-script-hash, -taproot, null-data; P2S when none matches
CanonicalType(b) ==
    IF \E pk \in PubKeys : b = gen_p2pk(pk)
        THEN P2PK(CHOOSE pk \in PubKeys : b = gen_p2pk(pk))
    ELSE IF \E h \in Hashes : b = gen_p2pkh(h)
        THEN P2PKH(CHOOSE h \in Hashes : b = gen_p2pkh(h))
    ELSE IF \E h \in Hashes : b = gen_p2sh(h)
        THEN P2SH(CHOOSE h \in Hashes : b = gen_p2sh(h))
    ELSE IF \E h \in Hashes : b = gen_v0_p2wpkh(h)
        THEN P2WPKH(CHOOSE h \in Hashes : b = gen_v0_p2wpkh(h))
    ELSE IF \E h \in Hashes : b = gen_v0_p2wsh(h)
        THEN P2WSH(CHOOSE h \in Hashes : b = gen_v0_p2wsh(h))
    ELSE IF \E k \in SecpKeys : b = TaprootTemplate(k)
        THEN P2TR(CHOOSE k \in SecpKeys : b = TaprootTemplate(k))
    ELSE IF \E d \in Hashes : b = gen_op_return(d)
        THEN P2OR(CHOOSE d \in Hashes : b = gen_op_return(d))
    ELSE P2S(from_inner("PubkeyScript", b))

MatchesNoTemplate(b) == CanonicalType(b).tag = "P2S"

Tags == {"P2S", "P2PK", "P2PKH", "P2SH", "P2OR", "P2WPKH", "P2WSH", "P2TR"}

\* C1: a PubkeyScriptSource of a hash-committing variant is obtained for a
\* commitment h only from a pre-image p with hash(p) = h.
C1_ResolutionHashChecked ==
    pc = "resolved" =>
        CASE source.tag = "P2PKH" -> PubkeyHashOf(source.key) = spkt.val.n
          [] source.tag = "P2SH" -> ScriptHashOf(into_inner(source.script)) = spkt.val.n
          [] source.tag = "P2WSH" -> WScriptHashOf(into_inner(source.script)) = spkt.val.n

\* C2: Script -> PubkeyScriptType returns, for a script matching a canonical
\* template, the corresponding variant with the committed key, hash or data,
\* and P2S only when no template matches.
C2_ClassifiesByTemplate ==
    pc = "classified" => spkt = CanonicalType(script_pubkey)

\* C3: for every variant v other than P2TR (P2PK, P2PKH, P2SH, P2OR, P2WPKH,
\* P2WSH), classifying the script generated from v gives back v.
C3_ClassifyGenerateInverse ==
    (pc = "reclassified" /\ spkt.tag \in {"P2PK", "P2PKH", "P2SH", "P2OR", "P2WPKH", "P2WSH"})
        => reclass = spkt

\* C4: generating a PubkeyScript never fails for P2PK, P2PKH, P2SH, P2OR,
\* P2WPKH and P2WSH, and for P2TR ends in an UnsupportedGeneration error
\* returned to the caller, not in script bytes and not in an abort.
C4_GenerationOutcome ==
    (pc \in {"generated", "aborted"}) =>
        IF spkt.tag = "P2TR" THEN generated.status = "UnsupportedGeneration"
        ELSE generated.status = "returned"

\* C10: Script -> PubkeyScriptType never fails and returns one variant; a
\* script matching no canonical template becomes P2S carrying the script
\* unchanged, and generating a PubkeyScript from that P2S gives the script back.
C10_ClassificationTotal ==
    /\ pc \in {"classified", "regenerated"} =>
          /\ spkt.tag \in Tags
          /\ MatchesNoTemplate(script_pubkey) =>
                spkt = P2S(from_inner("PubkeyScript", script_pubkey))
    /\ (pc = "regenerated" /\ MatchesNoTemplate(script_pubkey)) =>
          generated = Returned(from_inner("PubkeyScript", script_pubkey))

C10_Witness ==
    /\ pc = "regenerated"
    /\ script_pubkey = Encode(Multi(2, <<PublicKey(TRUE, 1), PublicKey(TRUE, 2)>>))
    /\ MatchesNoTemplate(script_pubkey)
    /\ spkt.tag = "P2S"
    /\ into_inner(generated.script) = script_pubkey

====
